---- MODULE Spec2Model ----
(***************************************************************************)
(* State-machine model of the ESP32 energy-meter firmware smart_iot.ino:   *)
(* sampling and kWh integration, day/month rollover, the manual timer,     *)
(* the /state.json persistence and the HTTP command handlers.              *)
(*                                                                         *)
(* Number representation                                                   *)
(*   - monotonic time (millis(), timerStartMs, ...) is counted in units of *)
(*     MsPerUnit = 8 ms, so that the 32-bit width of unsigned long         *)
(*     (2^32 ms = 2^29 units) and the constants 1000 ms and 30000 ms are   *)
(*     all exact integers;                                                 *)
(*   - power is in watts, voltage in volts, current in amperes, all        *)
(*     integer valued; the power readings are multiples of 60 W so that    *)
(*     the window mean sum/n is exact for every n in 1..5;                 *)
(*   - an energy counter x of the program is held as the integer           *)
(*     x * 3,600,000, which makes the                                      *)
(*     program's increment (p * dt) / 3600.0 with dt in seconds the exact  *)
(*     integer p * dtMs; floating point rounding is not modelled;          *)
(*   - a float that may be not-a-number or infinite is a record            *)
(*     [k, v] with k in {"fin", "nan", "inf"}.                             *)
(***************************************************************************)
EXTENDS Integers, Sequences, FiniteSets, TLC

(***************************************************************************)
(* Program constants                                                       *)
(***************************************************************************)
SAMPLE_INTERVAL_MS == 1000
SAVE_INTERVAL_MS == 30 * 1000
POWER_AVG_WINDOW == 5
\* milliseconds in one time unit: the largest unit dividing 1000 and 2^32
MsPerUnit == 2^3

\* number of time units in the range of a 32-bit unsigned long of milliseconds
ULongUnits == 2^(32 - 3)

\* unsigned long subtraction a - b, in time units
USub(a, b) == (a - b + ULongUnits) % ULongUnits

\* unsigned long addition a + b, in time units
UAdd(a, b) == (a + b) % ULongUnits

\* x / 1000UL for a millisecond value held in time units
MsToSec(u) == u \div (1000 \div MsPerUnit)

\* SecToMs with the bug of not multiplying by 1000
SecToMs_Unscaled(s) == s % ULongUnits

\* secs * 1000UL as a millisecond value held in time units
SecToMs(s) == (s * (1000 \div MsPerUnit)) % ULongUnits

(***************************************************************************)
(* Bounds of the model                                                     *)
(***************************************************************************)
\* largest monotonic time (in time units) reached after one power-on
MaxClock == 5000
\* number of days the wall clock may advance
MaxDays == 2
\* number of smoothing-window observations after which no further status
\* request is served in one power-on
MaxObs == 2
\* time stops passing once the energy counters exceed this (scaled) amount
MaxEnergy == 100000
\* time stops passing once the timer has accumulated this many time units
MaxTimer == 1100
\* number of power_smoothed calls made on arguments chosen at will
MaxSeen == 7
\* number of month-long waits in one power-on
MaxLongJumps == 3

(***************************************************************************)
(* Floats                                                                  *)
(***************************************************************************)
Fin(n) == [k |-> "fin", v |-> n]
NaN == [k |-> "nan", v |-> 0]
Inf == [k |-> "inf", v |-> 1]
NegInf == [k |-> "inf", v |-> -1]

isnan(x) == x.k = "nan"
isinf(x) == x.k = "inf"

\* v < c for a float v and a finite c (false for not-a-number)
FLess(x, c) ==
  CASE x.k = "fin" -> x.v < c
    [] x.k = "inf" -> x.v < 0
    [] OTHER -> FALSE

\* v > c for a float v and a finite c (false for not-a-number)
FGreater(x, c) ==
  CASE x.k = "fin" -> x.v > c
    [] x.k = "inf" -> x.v > 0
    [] OTHER -> FALSE

\* safeNumber with the bug of not clamping to the domain
safeNumber_NoClamp(v) ==
  IF isnan(v) \/ isinf(v) THEN Fin(0) ELSE v

safeNumber(v) ==
  IF isnan(v) \/ isinf(v) THEN Fin(0)
  ELSE IF FLess(v, -100000000) \/ FGreater(v, 100000000) THEN Fin(0)
  ELSE v

(***************************************************************************)
(* Calendar: the UTC year*100+month of an epoch, as gmtime_r computes it   *)
(***************************************************************************)
yyyymm_from_epoch(epoch_local) ==
  LET days == epoch_local \div 86400
      z    == days + 719468
      era  == z \div 146097
      doe  == z - era * 146097
      yoe  == (doe - doe \div 1460 + doe \div 36524 - doe \div 146096) \div 365
      doy  == doe - (365 * yoe + yoe \div 4 - yoe \div 100)
      mp   == (5 * doy + 2) \div 153
      mon  == IF mp < 10 THEN mp + 3 ELSE mp - 9
      yr   == yoe + era * 400 + (IF mon <= 2 THEN 1 ELSE 0)
  IN  yr * 100 + mon

(***************************************************************************)
(* Inputs                                                                  *)
(***************************************************************************)
\* sensor readings (voltage V, current A, power W)
Readings ==
  { [v |-> Fin(230), c |-> Fin(1), p |-> Fin(60)],
    [v |-> Fin(230), c |-> Fin(1), p |-> Fin(-60)],
    [v |-> Fin(0),   c |-> Fin(1), p |-> Fin(60)],
    [v |-> NaN,      c |-> Fin(1), p |-> Fin(60)],
    [v |-> Fin(230), c |-> NaN,    p |-> NaN],
    [v |-> Fin(230), c |-> Inf,    p |-> Fin(200000000)] }

\* arguments safeNumber is tried on: not-a-number, both infinities and
\* finite values at, inside and outside the bounds -1e8 and 1e8
FloatInputs ==
  { NaN, Inf, NegInf, Fin(-100000001), Fin(-100000000), Fin(-60), Fin(0),
    Fin(60), Fin(100000000), Fin(100000001) }

\* arguments power_smoothed is tried on
SmoothInputs == { Fin(60), Fin(120), NaN }

SteadyReading == [v |-> Fin(230), c |-> Fin(1), p |-> Fin(60)]

\* amounts of monotonic time that pass between two loop iterations
\* 8.504 s and 30 s, in time units
ShortStep == 8504 \div MsPerUnit
LongStep == 30000 \div MsPerUnit
TimeSteps == {ShortStep, LongStep}
\* a wait of about 31 days, 5/8 of the range of the millisecond counter
LongJump == 5 * 2^26

\* the tariff argument of a /settariff request: whether it is present and
\* the value server.arg("tariff").toFloat() yields
TariffArgs ==
  { [has |-> TRUE, val |-> 5], [has |-> TRUE, val |-> 0],
    [has |-> FALSE, val |-> 0] }

\* outcomes of the storage calls of saveState
SaveOutcomes == {"saved", "open_failed", "write_failed"}

\* wall clock at the first power-on: 2024-02-28 05:30 local
Epoch0 == 19781 * 86400 + 19800

\* what timeClient.getEpochTime() returns at power-on while no NTP answer
\* has been received: the time offset the client was constructed with
UnsyncedEpoch == 19800 + 0

(***************************************************************************)
(* State                                                                   *)
(***************************************************************************)
VARIABLES
  clock,              \* monotonic time since power-on, in time units
  epoch,              \* timeClient.getEpochTime()
  file,               \* /state.json on LittleFS
  pc,                 \* position of the sketch: setup, ntp, handle, save, day, month
  daily_kwh, yesterday_kwh, month_kwh, last_month_kwh,
  tariffRpKwh, lastDayNum, month_id, last_month_id,
  lastSaveMs, prevSampleTimeMs, lastMillisForDt,
  p_buf, p_idx, p_filled,
  timerStartMs, timerAccumulatedMs, timerRunning,
  flash,              \* what the LittleFS calls of saveState currently do
  statusDoc,          \* last /api/status document sent
  saveLog,            \* last line saveState printed
  runUnits,           \* history: timer value at load plus time spent Running
  nObs,               \* history: number of power_smoothed calls since power-on
  p_seen,             \* history: the arguments of those calls, oldest first
  lastCall,           \* history: last helper call made, its argument and result
  iter                \* history: counters and keys the running loop iteration
                      \* started with, and daily_kwh after its sampling block

energyVars == <<daily_kwh, yesterday_kwh, month_kwh, last_month_kwh>>
keyVars == <<lastDayNum, month_id, last_month_id>>
schedVars == <<lastSaveMs, prevSampleTimeMs, lastMillisForDt, iter>>
windowVars == <<p_buf, p_idx, p_filled, nObs, p_seen, lastCall>>
timerVars == <<timerStartMs, timerAccumulatedMs, timerRunning, runUnits>>
httpVars == <<statusDoc>>
storeVars == <<file, saveLog>>
envVars == <<clock, epoch, flash>>

vars == <<clock, epoch, flash, file, pc,
          daily_kwh, yesterday_kwh, month_kwh, last_month_kwh,
          tariffRpKwh, lastDayNum, month_id, last_month_id,
          lastSaveMs, prevSampleTimeMs, lastMillisForDt,
          p_buf, p_idx, p_filled,
          timerStartMs, timerAccumulatedMs, timerRunning,
          statusDoc, saveLog, runUnits, nObs, p_seen, lastCall, iter>>

\* millis()
millis == clock % ULongUnits

\* the wall-clock time, also while timeClient has not received it yet
RealEpoch ==
  IF epoch < Epoch0 THEN Epoch0 + (epoch - UnsyncedEpoch) ELSE epoch

curDay == epoch \div 86400
curMonthId == yyyymm_from_epoch(epoch)

(***************************************************************************)
(* Persistence                                                             *)
(***************************************************************************)
\* the persisted globals
Globals ==
  [ daily_kwh |-> daily_kwh, yesterday_kwh |-> yesterday_kwh,
    month_kwh |-> month_kwh, last_month_kwh |-> last_month_kwh,
    tariffRpKwh |-> tariffRpKwh, lastDayNum |-> lastDayNum,
    month_id |-> month_id, last_month_id |-> last_month_id,
    timerAccumulatedMs |-> timerAccumulatedMs ]

\* the JSON document saveState builds from globals g
DocOf(g) ==
  [ daily_kwh       |-> g.daily_kwh,
    yesterday_kwh   |-> g.yesterday_kwh,
    month_kwh       |-> g.month_kwh,
    last_month_kwh  |-> g.last_month_kwh,
    tariff          |-> g.tariffRpKwh,
    lastDayNum      |-> g.lastDayNum,
    month_id        |-> g.month_id,
    last_month_id   |-> g.last_month_id,
    timer_accum_sec |-> MsToSec(g.timerAccumulatedMs) ]

StateDoc == DocOf(Globals)

NoFile == [kind |-> "missing", doc |-> <<>>]
EmptyFile == [kind |-> "empty", doc |-> <<>>]
CorruptFile == [kind |-> "corrupt", doc |-> <<>>]
JsonFile(doc) == [kind |-> "json", doc |-> <<doc>>]

\* /state.json after saveState ran on document doc with the given outcome
FileAfterSave(outcome, doc, f) ==
  CASE outcome = "open_failed"  -> f
    [] outcome = "write_failed" -> EmptyFile
    [] OTHER                    -> JsonFile(doc)

\* saveState(), to be conjoined after the primed globals are set
saveState ==
  /\ file' = FileAfterSave(flash, StateDoc', file)
  /\ saveLog' = flash

\* the globals at power-on
BootGlobals ==
  [ daily_kwh |-> 0, yesterday_kwh |-> 0, month_kwh |-> 0, last_month_kwh |-> 0,
    tariffRpKwh |-> 10, lastDayNum |-> -1, month_id |-> -1, last_month_id |-> -1,
    timerAccumulatedMs |-> 0 ]

\* LoadedGlobals with the bug of reading yesterday_kwh from the daily_kwh key
LoadedGlobals_WrongKey(f, g) ==
  IF f.kind = "json"
  THEN LET doc == f.doc[1]
       IN [ daily_kwh |-> doc.daily_kwh,
            yesterday_kwh |-> doc.daily_kwh,
            month_kwh |-> doc.month_kwh,
            last_month_kwh |-> doc.last_month_kwh,
            tariffRpKwh |-> doc.tariff,
            lastDayNum |-> doc.lastDayNum,
            month_id |-> doc.month_id,
            last_month_id |-> doc.last_month_id,
            timerAccumulatedMs |-> SecToMs(doc.timer_accum_sec) ]
  ELSE g

\* the persisted globals loadState leaves, from globals g and file f
LoadedGlobals(f, g) ==
  IF f.kind = "json"
  THEN LET doc == f.doc[1]
       IN [ daily_kwh |-> doc.daily_kwh,
            yesterday_kwh |-> doc.yesterday_kwh,
            month_kwh |-> doc.month_kwh,
            last_month_kwh |-> doc.last_month_kwh,
            tariffRpKwh |-> doc.tariff,
            lastDayNum |-> doc.lastDayNum,
            month_id |-> doc.month_id,
            last_month_id |-> doc.last_month_id,
            timerAccumulatedMs |-> SecToMs(doc.timer_accum_sec) ]
  ELSE g

\* loadState with the bug of not creating the file when it is missing
loadState_NoCreate ==
  LET g == LoadedGlobals(file, Globals)
  IN  /\ daily_kwh' = g.daily_kwh
      /\ yesterday_kwh' = g.yesterday_kwh
      /\ month_kwh' = g.month_kwh
      /\ last_month_kwh' = g.last_month_kwh
      /\ tariffRpKwh' = g.tariffRpKwh
      /\ lastDayNum' = g.lastDayNum
      /\ month_id' = g.month_id
      /\ last_month_id' = g.last_month_id
      /\ timerAccumulatedMs' = g.timerAccumulatedMs
      /\ UNCHANGED storeVars

\* loadState with the bug of rewriting every file it could not load
loadState_Rewrite ==
  LET g == LoadedGlobals(file, Globals)
  IN  /\ daily_kwh' = g.daily_kwh
      /\ yesterday_kwh' = g.yesterday_kwh
      /\ month_kwh' = g.month_kwh
      /\ last_month_kwh' = g.last_month_kwh
      /\ tariffRpKwh' = g.tariffRpKwh
      /\ lastDayNum' = g.lastDayNum
      /\ month_id' = g.month_id
      /\ last_month_id' = g.last_month_id
      /\ timerAccumulatedMs' = g.timerAccumulatedMs
      /\ IF file.kind # "json"
         THEN saveState
         ELSE UNCHANGED storeVars

\* loadState()
loadState ==
  LET g == LoadedGlobals(file, Globals)
  IN  /\ daily_kwh' = g.daily_kwh
      /\ yesterday_kwh' = g.yesterday_kwh
      /\ month_kwh' = g.month_kwh
      /\ last_month_kwh' = g.last_month_kwh
      /\ tariffRpKwh' = g.tariffRpKwh
      /\ lastDayNum' = g.lastDayNum
      /\ month_id' = g.month_id
      /\ last_month_id' = g.last_month_id
      /\ timerAccumulatedMs' = g.timerAccumulatedMs
      /\ IF file.kind = "missing"
         THEN saveState
         ELSE UNCHANGED storeVars

(***************************************************************************)
(* Initial state: power-on with the globals at their initialisers          *)
(***************************************************************************)
\* no helper call made yet
NoCall == [fn |-> "", arg |-> Fin(0), res |-> Fin(0)]

\* outside a loop iteration
NoIter ==
  [ in |-> FALSE, daily_kwh |-> 0, daily_sampled |-> 0, month_kwh |-> 0,
    lastDayNum |-> -1, month_id |-> -1 ]

NoStatus ==
  [voltage |-> 0, current |-> 0, power |-> 0, timer_running |-> FALSE, timer_sec |-> 0]

PowerOnGlobals ==
  /\ daily_kwh = BootGlobals.daily_kwh
  /\ yesterday_kwh = BootGlobals.yesterday_kwh
  /\ month_kwh = BootGlobals.month_kwh
  /\ last_month_kwh = BootGlobals.last_month_kwh
  /\ tariffRpKwh = BootGlobals.tariffRpKwh
  /\ lastDayNum = BootGlobals.lastDayNum
  /\ month_id = BootGlobals.month_id
  /\ last_month_id = BootGlobals.last_month_id
  /\ timerAccumulatedMs = BootGlobals.timerAccumulatedMs
  /\ lastSaveMs = 0
  /\ prevSampleTimeMs = 0
  /\ lastMillisForDt = 0
  /\ p_buf = [i \in 0..(POWER_AVG_WINDOW - 1) |-> 0]
  /\ p_idx = 0
  /\ p_filled = FALSE
  /\ timerStartMs = 0
  /\ timerRunning = FALSE

\* power-on with timeClient returning e
InitWith(e) ==
  /\ PowerOnGlobals
  /\ clock = 0
  /\ epoch = e
  /\ flash = "saved"
  /\ file \in {NoFile, EmptyFile, CorruptFile}
  /\ pc = "setup"
  /\ statusDoc = NoStatus
  /\ saveLog = ""
  /\ runUnits = 0
  /\ nObs = 0
  /\ p_seen = <<>>
  /\ lastCall = NoCall
  /\ iter = NoIter

\* power-on with WiFi up: timeClient.update() in setup() gets the time
Init == InitWith(Epoch0)

\* power-on with WiFi up or down
InitClock == \E e \in {Epoch0, UnsyncedEpoch} : InitWith(e)

(***************************************************************************)
(* setup(); LittleFS.open for reading succeeds on an existing file         *)
(***************************************************************************)
\* setup() up to and including loadState()
SetupLoad ==
  /\ pc = "setup"
  /\ loadState
  /\ runUnits' = timerAccumulatedMs'
  /\ pc' = "ntp"
  /\ UNCHANGED <<envVars, schedVars, windowVars, timerStartMs, timerRunning, httpVars>>

\* the rest of setup(): day and month keys from the NTP clock, timestamps
SetupNtp ==
  /\ pc = "ntp"
  /\ lastDayNum' = IF lastDayNum < 0 THEN curDay ELSE lastDayNum
  /\ month_id' = IF month_id < 0 THEN curMonthId ELSE month_id
  /\ prevSampleTimeMs' = millis
  /\ lastSaveMs' = millis
  /\ pc' = "handle"
  /\ UNCHANGED <<envVars, storeVars, energyVars, tariffRpKwh, last_month_id,
                 lastMillisForDt, iter, windowVars, timerVars, httpVars>>

(***************************************************************************)
(* Sampling helpers                                                        *)
(***************************************************************************)
\* MainsGuard with the bug of zeroing the voltage only
MainsGuard_VoltageOnly(r) ==
  IF isnan(r.v) \/ FLess(r.v, 1)
  THEN [v |-> Fin(0), c |-> r.c, p |-> r.p]
  ELSE r

\* "if mains is off/invalid, treat as zero": the guard on a raw reading
MainsGuard(r) ==
  IF isnan(r.v) \/ FLess(r.v, 1)
  THEN [v |-> Fin(0), c |-> Fin(0), p |-> Fin(0)]
  ELSE r

RECURSIVE SumBuf(_, _)
\* p_buf[0] + ... + p_buf[n-1]
SumBuf(buf, n) == IF n = 0 THEN 0 ELSE buf[n - 1] + SumBuf(buf, n - 1)

\* power_smoothed with the bug of always dividing by the window size
power_smoothed_FullDivisor(buf, idx, filled, p_now) ==
  LET nbuf    == [buf EXCEPT ![idx] = IF isnan(p_now) THEN 0 ELSE p_now.v]
      nidx    == (idx + 1) % POWER_AVG_WINDOW
      nfilled == filled \/ nidx = 0
      n       == POWER_AVG_WINDOW
  IN  [ buf |-> nbuf, idx |-> nidx, filled |-> nfilled,
        out |-> Fin(SumBuf(nbuf, n) \div n) ]

\* power_smoothed(p_now) on window (buf, idx, filled): the window it leaves
\* and the value it returns
power_smoothed(buf, idx, filled, p_now) ==
  LET nbuf    == [buf EXCEPT ![idx] = IF isnan(p_now) THEN 0 ELSE p_now.v]
      nidx    == (idx + 1) % POWER_AVG_WINDOW
      nfilled == filled \/ nidx = 0
      n       == IF nfilled THEN POWER_AVG_WINDOW ELSE nidx
  IN  [ buf |-> nbuf, idx |-> nidx, filled |-> nfilled,
        out |-> IF n = 0 THEN p_now ELSE Fin(SumBuf(nbuf, n) \div n) ]

\* the amount "daily_kwh += (p * dt) / 3600.0" adds, scaled by 3,600,000,
\* for p in watts and dt = dtMs / 1000.0 seconds
IntegrateEnergy(p, dtMs) == p * dtMs

\* elapsed milliseconds the loop integrates over, in ms
SampleDtMs(nowMs) ==
  LET last == IF lastMillisForDt = 0
              THEN USub(nowMs, SAMPLE_INTERVAL_MS \div MsPerUnit)
              ELSE lastMillisForDt
  IN  USub(nowMs, last) * MsPerUnit

SampleDue(nowMs) ==
  USub(nowMs, prevSampleTimeMs) >= SAMPLE_INTERVAL_MS \div MsPerUnit

SaveDue(nowMs) ==
  USub(nowMs, lastSaveMs) >= SAVE_INTERVAL_MS \div MsPerUnit

(***************************************************************************)
(* loop(), one action per block.  Monotonic time and the wall clock move   *)
(* between iterations only, so every block of an iteration sees the nowMs  *)
(* and the epoch read in it.  The periodic timeClient.update() belongs to  *)
(* the wall clock, which EpochAdvance and NtpSync move.                    *)
(***************************************************************************)
\* the sampling block of loop(), the sensor answering with a reading of R
Sample(R) ==
  /\ pc = "handle"
  /\ pc' = "save"
  /\ IF SampleDue(millis)
     THEN \E r \in R :
            LET g  == MainsGuard(r)
                sm == power_smoothed(p_buf, p_idx, p_filled, safeNumber(g.p))
            IN  /\ p_buf' = sm.buf
                /\ p_idx' = sm.idx
                /\ p_filled' = sm.filled
                /\ nObs' = nObs + 1
                /\ p_seen' = Append(p_seen, safeNumber(g.p))
                /\ lastCall' = [fn |-> "power_smoothed", arg |-> safeNumber(g.p), res |-> sm.out]
                /\ daily_kwh' = daily_kwh + IntegrateEnergy(sm.out.v, SampleDtMs(millis))
                /\ lastMillisForDt' = millis
                /\ prevSampleTimeMs' = millis
     ELSE UNCHANGED <<windowVars, daily_kwh, lastMillisForDt, prevSampleTimeMs>>
  /\ iter' = [ in |-> TRUE, daily_kwh |-> daily_kwh, daily_sampled |-> daily_kwh',
                month_kwh |-> month_kwh, lastDayNum |-> lastDayNum,
                month_id |-> month_id ]
  /\ UNCHANGED <<envVars, storeVars, yesterday_kwh, month_kwh, last_month_kwh,
                 tariffRpKwh, keyVars, lastSaveMs, timerVars, httpVars>>

LoopSample == Sample(Readings)

\* the sampling block of loop() while the load draws a steady 60 W
LoopSampleSteady == Sample({SteadyReading})

\* the periodic save of loop()
LoopSave ==
  /\ pc = "save"
  /\ pc' = "day"
  /\ UNCHANGED <<envVars, energyVars, tariffRpKwh, keyVars, prevSampleTimeMs,
                 lastMillisForDt, iter, windowVars, timerVars, httpVars>>
  /\ IF SaveDue(millis)
     THEN saveState /\ lastSaveMs' = millis
     ELSE UNCHANGED <<storeVars, lastSaveMs>>

\* LoopDay with the bug of not recording the day just rolled over
LoopDay_KeyNotStored ==
  /\ pc = "day"
  /\ pc' = "month"
  /\ UNCHANGED <<envVars, last_month_kwh, tariffRpKwh, month_id, last_month_id,
                 schedVars, windowVars, timerVars, httpVars, lastDayNum>>
  /\ IF curDay # lastDayNum
     THEN /\ month_kwh' = month_kwh + daily_kwh
          /\ yesterday_kwh' = daily_kwh
          /\ daily_kwh' = 0
          /\ saveState
     ELSE UNCHANGED <<month_kwh, yesterday_kwh, daily_kwh, storeVars>>

\* LoopDay with the bug of not adding the day to the month
LoopDay_NotFolded ==
  /\ pc = "day"
  /\ pc' = "month"
  /\ UNCHANGED <<envVars, last_month_kwh, tariffRpKwh, month_id, last_month_id,
                 schedVars, windowVars, timerVars, httpVars, month_kwh>>
  /\ IF curDay # lastDayNum
     THEN /\ yesterday_kwh' = daily_kwh
          /\ daily_kwh' = 0
          /\ lastDayNum' = curDay
          /\ saveState
     ELSE UNCHANGED <<yesterday_kwh, daily_kwh, lastDayNum, storeVars>>

\* the daily rollover of loop()
LoopDay ==
  /\ pc = "day"
  /\ pc' = "month"
  /\ UNCHANGED <<envVars, last_month_kwh, tariffRpKwh, month_id, last_month_id,
                 schedVars, windowVars, timerVars, httpVars>>
  /\ IF curDay # lastDayNum
     THEN /\ month_kwh' = month_kwh + daily_kwh
          /\ yesterday_kwh' = daily_kwh
          /\ daily_kwh' = 0
          /\ lastDayNum' = curDay
          /\ saveState
     ELSE UNCHANGED <<month_kwh, yesterday_kwh, daily_kwh, lastDayNum, storeVars>>

\* LoopMonth with the bug of zeroing month_kwh before copying it
LoopMonth_ZeroedFirst ==
  /\ pc = "month"
  /\ pc' = "handle"
  /\ iter' = NoIter
  /\ UNCHANGED <<envVars, daily_kwh, yesterday_kwh, tariffRpKwh, lastDayNum,
                 lastSaveMs, prevSampleTimeMs, lastMillisForDt,
                 windowVars, timerVars, httpVars>>
  /\ IF curMonthId # month_id
     THEN /\ month_kwh' = 0
          /\ last_month_kwh' = month_kwh'
          /\ last_month_id' = month_id
          /\ month_id' = curMonthId
          /\ saveState
     ELSE UNCHANGED <<last_month_kwh, last_month_id, month_id, month_kwh, storeVars>>

\* the month rollover of loop()
LoopMonth ==
  /\ pc = "month"
  /\ pc' = "handle"
  /\ iter' = NoIter
  /\ UNCHANGED <<envVars, daily_kwh, yesterday_kwh, tariffRpKwh, lastDayNum,
                 lastSaveMs, prevSampleTimeMs, lastMillisForDt,
                 windowVars, timerVars, httpVars>>
  /\ IF curMonthId # month_id
     THEN /\ last_month_kwh' = month_kwh
          /\ last_month_id' = month_id
          /\ month_id' = curMonthId
          /\ month_kwh' = 0
          /\ saveState
     ELSE UNCHANGED <<last_month_kwh, last_month_id, month_id, month_kwh, storeVars>>

(***************************************************************************)
(* HTTP handlers, run to completion by server.handleClient()               *)
(***************************************************************************)
\* HandleSetTariff with the bug of not saving
HandleSetTariff_NotSaved ==
  /\ pc = "handle"
  /\ UNCHANGED <<envVars, pc, energyVars, keyVars, timerVars, schedVars,
                 windowVars, statusDoc, storeVars>>
  /\ \E arg \in TariffArgs :
       IF arg.has
       THEN tariffRpKwh' = arg.val
       ELSE UNCHANGED tariffRpKwh

\* POST /settariff, with or without the tariff argument
HandleSetTariff ==
  /\ pc = "handle"
  /\ UNCHANGED <<envVars, pc, energyVars, keyVars, timerVars, schedVars,
                 windowVars, statusDoc>>
  /\ \E arg \in TariffArgs :
       IF arg.has
       THEN /\ tariffRpKwh' = arg.val
            /\ saveState
       ELSE UNCHANGED <<tariffRpKwh, storeVars>>

\* POST /formatfs, LittleFS.format() returning ok
FormatFS(ok) ==
  /\ pc = "handle"
  /\ UNCHANGED <<envVars, pc, energyVars, tariffRpKwh, keyVars, schedVars,
                 windowVars, timerVars, statusDoc>>
  /\ IF ok
     THEN /\ file' = FileAfterSave(flash, StateDoc, NoFile)
          /\ saveLog' = flash
     ELSE UNCHANGED storeVars

\* POST /formatfs; LittleFS.format() succeeds or fails
HandleFormatFS == \E ok \in BOOLEAN : FormatFS(ok)

\* POST /resetenergy
HandleResetEnergy ==
  /\ pc = "handle"
  /\ daily_kwh' = 0
  /\ yesterday_kwh' = 0
  /\ month_kwh' = 0
  /\ last_month_kwh' = 0
  /\ UNCHANGED <<tariffRpKwh, keyVars, timerVars>>
  /\ saveState
  /\ UNCHANGED <<envVars, pc, schedVars, windowVars, statusDoc>>

\* TimerAccumulate with the bug of assigning instead of adding
TimerAccumulate_Overwrite(acc, now, start) == USub(now, start)

\* timerAccumulatedMs += (now - timerStartMs)
TimerAccumulate(acc, now, start) == UAdd(acc, USub(now, start))

\* POST /starttimer
HandleStartTimer ==
  /\ pc = "handle"
  /\ UNCHANGED <<energyVars, tariffRpKwh, keyVars, timerAccumulatedMs, runUnits>>
  /\ IF ~timerRunning
     THEN /\ timerStartMs' = millis
          /\ timerRunning' = TRUE
          /\ saveState
     ELSE UNCHANGED <<timerStartMs, timerRunning, storeVars>>
  /\ UNCHANGED <<envVars, pc, schedVars, windowVars, statusDoc>>

\* POST /stoptimer
HandleStopTimer ==
  /\ pc = "handle"
  /\ UNCHANGED <<energyVars, tariffRpKwh, keyVars, timerStartMs, runUnits>>
  /\ IF timerRunning
     THEN /\ timerAccumulatedMs' = TimerAccumulate(timerAccumulatedMs, millis, timerStartMs)
          /\ timerRunning' = FALSE
          /\ saveState
     ELSE UNCHANGED <<timerAccumulatedMs, timerRunning, storeVars>>
  /\ UNCHANGED <<envVars, pc, schedVars, windowVars, statusDoc>>

\* HandleResetTimer with the bug of leaving timerRunning as it is
HandleResetTimer_StillRunning ==
  /\ pc = "handle"
  /\ timerAccumulatedMs' = 0
  /\ timerStartMs' = 0
  /\ runUnits' = 0
  /\ UNCHANGED <<energyVars, tariffRpKwh, keyVars, timerRunning>>
  /\ saveState
  /\ UNCHANGED <<envVars, pc, schedVars, windowVars, statusDoc>>

\* POST /resettimer
HandleResetTimer ==
  /\ pc = "handle"
  /\ timerRunning' = FALSE
  /\ timerAccumulatedMs' = 0
  /\ timerStartMs' = 0
  /\ runUnits' = 0
  /\ UNCHANGED <<energyVars, tariffRpKwh, keyVars>>
  /\ saveState
  /\ UNCHANGED <<envVars, pc, schedVars, windowVars, statusDoc>>

\* timerSec as handleApiStatus computes it
TimerSec ==
  LET timerNowMs == IF timerRunning
                    THEN UAdd(timerAccumulatedMs, USub(millis, timerStartMs))
                    ELSE timerAccumulatedMs
  IN  MsToSec(timerNowMs)

\* GET /api/status, the sensor answering with a reading of R; of the
\* document sent, the sensor and timer fields are kept
ApiStatus(R) ==
  /\ pc = "handle"
  /\ nObs < MaxObs
  /\ \E r \in R :
       LET g  == MainsGuard(r)
           sm == power_smoothed(p_buf, p_idx, p_filled, safeNumber(g.p))
       IN  /\ p_buf' = sm.buf
           /\ p_idx' = sm.idx
           /\ p_filled' = sm.filled
           /\ nObs' = nObs + 1
           /\ p_seen' = Append(p_seen, safeNumber(g.p))
           /\ lastCall' = [fn |-> "power_smoothed", arg |-> safeNumber(g.p), res |-> sm.out]
           /\ statusDoc' = [ voltage |-> safeNumber(g.v).v,
                             current |-> safeNumber(g.c).v,
                             power |-> sm.out.v,
                             timer_running |-> timerRunning,
                             timer_sec |-> TimerSec ]
  /\ UNCHANGED <<envVars, pc, storeVars, energyVars, tariffRpKwh, keyVars,
                 schedVars, timerVars>>

HandleApiStatus == ApiStatus(Readings)

(***************************************************************************)
(* The helper functions called on their own                                *)
(***************************************************************************)
\* safeNumber(x) for an argument of FloatInputs
CallSafeNumber ==
  /\ pc = "handle"
  /\ \E x \in FloatInputs :
       lastCall' = [fn |-> "safeNumber", arg |-> x, res |-> safeNumber(x)]
  /\ UNCHANGED <<envVars, pc, storeVars, energyVars, tariffRpKwh, keyVars,
                 schedVars, p_buf, p_idx, p_filled, nObs, p_seen, timerVars,
                 httpVars>>

\* power_smoothed(p) for an argument of SmoothInputs
CallPowerSmoothed ==
  /\ pc = "handle"
  /\ Len(p_seen) < MaxSeen
  /\ \E p \in SmoothInputs :
       LET sm == power_smoothed(p_buf, p_idx, p_filled, p)
       IN  /\ p_buf' = sm.buf
           /\ p_idx' = sm.idx
           /\ p_filled' = sm.filled
           /\ nObs' = nObs + 1
           /\ p_seen' = Append(p_seen, p)
           /\ lastCall' = [fn |-> "power_smoothed", arg |-> p, res |-> sm.out]
  /\ UNCHANGED <<envVars, pc, storeVars, energyVars, tariffRpKwh, keyVars,
                 schedVars, timerVars, httpVars>>

(***************************************************************************)
(* Environment                                                             *)
(***************************************************************************)
Abs(x) == IF x < 0 THEN -x ELSE x

EnergyLoad ==
  Abs(daily_kwh) + Abs(yesterday_kwh) + Abs(month_kwh) + Abs(last_month_kwh)

\* monotonic time passes between two loop iterations, by an amount of S
Pass(S) ==
  /\ pc = "handle"
  /\ EnergyLoad <= MaxEnergy
  /\ timerAccumulatedMs <= MaxTimer
  /\ \E d \in S :
       /\ clock + d <= MaxClock
       /\ clock' = clock + d
       /\ runUnits' = IF timerRunning THEN runUnits + d ELSE runUnits
  /\ UNCHANGED <<epoch, flash, pc, storeVars, energyVars, tariffRpKwh, keyVars,
                 schedVars, windowVars, timerStartMs, timerAccumulatedMs,
                 timerRunning, httpVars>>

Advance == Pass(TimeSteps)

\* a little more than eight seconds pass
AdvanceShort == Pass({ShortStep})

\* about 31 days pass between two loop iterations
AdvanceLong ==
  /\ pc = "handle"
  /\ clock \div LongJump < MaxLongJumps
  /\ clock' = clock + LongJump
  /\ runUnits' = IF timerRunning THEN runUnits + LongJump ELSE runUnits
  /\ UNCHANGED <<epoch, flash, pc, storeVars, energyVars, tariffRpKwh, keyVars,
                 schedVars, windowVars, timerStartMs, timerAccumulatedMs,
                 timerRunning, httpVars>>

\* the wall clock passes midnight
EpochAdvance ==
  /\ pc = "handle"
  /\ RealEpoch + 86400 <= Epoch0 + MaxDays * 86400
  /\ epoch' = epoch + 86400
  /\ UNCHANGED <<clock, flash, pc, storeVars, energyVars, tariffRpKwh, keyVars,
                 schedVars, windowVars, timerVars, httpVars>>

\* the periodic timeClient.update() of loop() receives the time for the
\* first time
NtpSync ==
  /\ pc = "handle"
  /\ epoch < Epoch0
  /\ epoch' = RealEpoch
  /\ UNCHANGED <<clock, flash, pc, storeVars, energyVars, tariffRpKwh, keyVars,
                 schedVars, windowVars, timerVars, httpVars>>

\* power loss and power-on: RAM is lost, the flash file system is left
\* holding /state.json as f
PowerCycle(f) ==
  /\ daily_kwh' = BootGlobals.daily_kwh
  /\ yesterday_kwh' = BootGlobals.yesterday_kwh
  /\ month_kwh' = BootGlobals.month_kwh
  /\ last_month_kwh' = BootGlobals.last_month_kwh
  /\ tariffRpKwh' = BootGlobals.tariffRpKwh
  /\ lastDayNum' = BootGlobals.lastDayNum
  /\ month_id' = BootGlobals.month_id
  /\ last_month_id' = BootGlobals.last_month_id
  /\ timerAccumulatedMs' = BootGlobals.timerAccumulatedMs
  /\ lastSaveMs' = 0
  /\ prevSampleTimeMs' = 0
  /\ lastMillisForDt' = 0
  /\ p_buf' = [i \in 0..(POWER_AVG_WINDOW - 1) |-> 0]
  /\ p_idx' = 0
  /\ p_filled' = FALSE
  /\ timerStartMs' = 0
  /\ timerRunning' = FALSE
  /\ clock' = 0
  /\ pc' = "setup"
  /\ statusDoc' = NoStatus
  /\ saveLog' = ""
  /\ runUnits' = 0
  /\ nObs' = 0
  /\ p_seen' = <<>>
  /\ lastCall' = NoCall
  /\ iter' = NoIter
  /\ file' = f
  /\ UNCHANGED <<epoch, flash>>

\* power loss outside saveState and power-on: /state.json is kept
Restart == PowerCycle(file)

\* what /state.json can hold when power is lost inside a saveState of
\* document doc over file f: f before LittleFS.open(STATE_FILE, "w"), no
\* content once that call has truncated the file, doc once serializeJson
\* has written it
InterruptedSaveFiles(doc, f) == {f, EmptyFile, JsonFile(doc)}

\* power is lost during the periodic saveState of loop(), then power-on
PowerLossInSave ==
  /\ pc = "save"
  /\ SaveDue(millis)
  /\ \E f \in InterruptedSaveFiles(StateDoc, file) : PowerCycle(f)

\* the flash file system starts or stops failing
FlashChange ==
  /\ \E o \in SaveOutcomes \ {flash} : flash' = o
  /\ UNCHANGED <<clock, epoch, pc, storeVars, energyVars, tariffRpKwh, keyVars,
                 schedVars, windowVars, timerVars, httpVars>>

(***************************************************************************)
(* Specifications                                                          *)
(***************************************************************************)
\* the meter: boot, the loop, both clocks, failing storage, energy reset
Next ==
  \/ SetupLoad
  \/ SetupNtp
  \/ LoopSample
  \/ LoopSave
  \/ LoopDay
  \/ LoopMonth
  \/ HandleResetEnergy
  \/ Advance
  \/ EpochAdvance
  \/ FlashChange

Spec == Init /\ [][Next]_vars

\* the manual timer and the status request
NextTimer ==
  \/ SetupLoad
  \/ SetupNtp
  \/ HandleStartTimer
  \/ HandleStopTimer
  \/ HandleResetTimer
  \/ HandleApiStatus
  \/ Advance

SpecTimer == Init /\ [][NextTimer]_vars

\* commands, rollovers and restarts on working storage
NextStore ==
  \/ SetupLoad
  \/ SetupNtp
  \/ LoopSampleSteady
  \/ LoopSave
  \/ LoopDay
  \/ LoopMonth
  \/ HandleSetTariff
  \/ HandleFormatFS
  \/ HandleResetEnergy
  \/ HandleStartTimer
  \/ HandleStopTimer
  \/ HandleResetTimer
  \/ AdvanceShort
  \/ EpochAdvance
  \/ Restart

SpecStore == Init /\ [][NextStore]_vars

\* the loop, with power lost during periodic saves
NextCrash ==
  \/ SetupLoad
  \/ SetupNtp
  \/ LoopSampleSteady
  \/ LoopSave
  \/ LoopDay
  \/ LoopMonth
  \/ Advance
  \/ PowerLossInSave

SpecCrash == Init /\ [][NextCrash]_vars

\* the loop on a device that may boot before the network is up
NextClock ==
  \/ SetupLoad
  \/ SetupNtp
  \/ LoopSampleSteady
  \/ LoopSave
  \/ LoopDay
  \/ LoopMonth
  \/ Advance
  \/ EpochAdvance
  \/ NtpSync

SpecClock == InitClock /\ [][NextClock]_vars

\* the timer left to run for months, never reset, the device never restarted
NextWrap ==
  \/ SetupLoad
  \/ SetupNtp
  \/ HandleStartTimer
  \/ HandleStopTimer
  \/ HandleApiStatus
  \/ AdvanceLong

SpecWrap == Init /\ [][NextWrap]_vars

\* the helper functions on arguments chosen at will
NextPure ==
  \/ SetupLoad
  \/ SetupNtp
  \/ CallSafeNumber
  \/ CallPowerSmoothed

SpecPure == Init /\ [][NextPure]_vars

TypeOK ==
  /\ pc \in {"setup", "ntp", "handle", "save", "day", "month"}
  /\ file.kind \in {"missing", "empty", "corrupt", "json"}
  /\ p_idx \in 0..(POWER_AVG_WINDOW - 1)
  /\ timerAccumulatedMs \in 0..(ULongUnits - 1)
  /\ timerStartMs \in 0..(ULongUnits - 1)

(***************************************************************************)
(* Energy integration and rollover                                         *)
(***************************************************************************)
\* mean of the valid entries of the smoothing window: the value the last
\* power_smoothed call returned
WindowMean ==
  LET n == IF p_filled THEN POWER_AVG_WINDOW ELSE p_idx
  IN  IF n = 0 THEN 0 ELSE SumBuf(p_buf, n) \div n

\* a loop iteration whose sampling block runs
SampleTick == LoopSample /\ SampleDue(millis)

\* C1: a sampling tick with smoothed power p >= 0 W over dt seconds adds
\* exactly p*dt/3,600,000 to daily_kwh and changes no other energy counter.
\* Counters are scaled by 3,600,000 and dt = dtMs/1000, so the claimed
\* increment d satisfies 1000 * d = p * dtMs.
C1_TickAddsKWh ==
  [][ (SampleTick /\ WindowMean' >= 0)
        => /\ 1000 * (daily_kwh' - daily_kwh) = WindowMean' * SampleDtMs(millis)
           /\ UNCHANGED <<yesterday_kwh, month_kwh, last_month_kwh>> ]_vars

\* a loop iteration's daily-rollover block, and one whose rollover fires
DayStep == pc = "day" /\ pc' = "month"
DayRollover == DayStep /\ curDay # lastDayNum

\* a loop iteration's month-rollover block, and one whose rollover fires
MonthStep == pc = "month" /\ pc' = "handle"
MonthRollover == MonthStep /\ curMonthId # month_id

\* C2: when the daily-rollover block sees a current day different from
\* lastDayNum, yesterday_kwh becomes the pre-rollover daily_kwh, month_kwh
\* grows by it, daily_kwh becomes 0 and lastDayNum becomes the current day;
\* the block always leaves lastDayNum equal to the current day, and when it
\* finds them equal it changes none of these fields.
C2_DayRolloverOnce ==
  [][ DayStep
        => /\ curDay # lastDayNum
                => /\ yesterday_kwh' = daily_kwh
                   /\ month_kwh' = month_kwh + daily_kwh
                   /\ daily_kwh' = 0
                   /\ lastDayNum' = curDay
           /\ curDay = lastDayNum
                => UNCHANGED <<daily_kwh, yesterday_kwh, month_kwh, lastDayNum>>
           /\ lastDayNum' = curDay' ]_vars

\* a day rollover of a day with consumption has just run
C2_Witness ==
  /\ pc = "month"
  /\ lastDayNum = curDay
  /\ curDay > Epoch0 \div 86400
  /\ daily_kwh = 0
  /\ yesterday_kwh > 0
  /\ month_kwh >= yesterday_kwh

\* C3: when the month-rollover block sees a current month id different from
\* month_id, last_month_kwh becomes the month_kwh held at that moment,
\* last_month_id the old month_id, month_id the current month id and
\* month_kwh 0; the block always leaves month_id equal to the current month
\* id, and when it finds them equal it changes none of these fields.
C3_MonthRollover ==
  [][ MonthStep
        => /\ curMonthId # month_id
                => /\ last_month_kwh' = month_kwh
                   /\ last_month_id' = month_id
                   /\ month_id' = curMonthId
                   /\ month_kwh' = 0
           /\ curMonthId = month_id
                => UNCHANGED <<last_month_kwh, last_month_id, month_id, month_kwh>>
           /\ month_id' = curMonthId' ]_vars

\* a month rollover of a month with consumption has just run
C3_Witness ==
  /\ pc = "handle"
  /\ month_id = curMonthId
  /\ last_month_id = yyyymm_from_epoch(Epoch0)
  /\ month_id # last_month_id
  /\ last_month_kwh > 0
  /\ month_kwh = 0

\* C4: daily_kwh is never smaller after a step than before it, unless the
\* step is a day rollover, a /resetenergy command or a power-on.
C4_DailyNeverDecreases ==
  [][ daily_kwh' < daily_kwh
        => DayRollover \/ HandleResetEnergy \/ pc' = "setup" \/ pc = "setup" ]_vars

C6_ResetTimer ==
  [][ HandleResetTimer
        => /\ ~timerRunning'
           /\ timerAccumulatedMs' = 0
           /\ timerStartMs' = 0
           /\ TimerSec' = 0 ]_vars

\* the timer is back at 0 and Stopped after a status request reported a
\* positive elapsed time
C6_Witness ==
  /\ statusDoc.timer_sec > 0
  /\ ~timerRunning
  /\ timerAccumulatedMs = 0
  /\ timerStartMs = 0
  /\ TimerSec = 0

(***************************************************************************)
(* Status request                                                          *)
(***************************************************************************)
\* readings whose voltage is not-a-number or below 1.0
MainsOffReadings == {r \in Readings : isnan(r.v) \/ FLess(r.v, 1)}

\* C10 as stated: a status request whose voltage reading is not-a-number or
\* below 1.0 emits voltage, current and power all exactly 0.
C10_StatusAllZero ==
  [][ ApiStatus(MainsOffReadings)
        => /\ statusDoc'.voltage = 0
           /\ statusDoc'.current = 0
           /\ statusDoc'.power = 0 ]_vars

\* C10 as amended: such a status request emits voltage and current exactly
\* 0, stores a 0 W sample in the smoothing window and emits as power the
\* mean of the window's valid entries, the samples before it included.
C10_StatusZeroedBeforeSmoothing ==
  [][ ApiStatus(MainsOffReadings)
        => /\ statusDoc'.voltage = 0
           /\ statusDoc'.current = 0
           /\ p_buf'[p_idx] = 0
           /\ statusDoc'.power = WindowMean' ]_vars

\* a status emitted with mains absent right after a 60 W sample: power 30 W
C10_Witness ==
  /\ nObs = 2
  /\ p_buf[0] = 60
  /\ p_buf[1] = 0
  /\ statusDoc.voltage = 0
  /\ statusDoc.current = 0
  /\ statusDoc.power = 30

\* C11: a status request leaves the energy counters, the tariff, the day and
\* month keys, the timer, /state.json and the smoothing window (buffer,
\* index, filled flag) as they are.
C11_StatusReadOnly ==
  [][ HandleApiStatus
        => UNCHANGED <<energyVars, tariffRpKwh, keyVars, timerStartMs,
                       timerAccumulatedMs, timerRunning, file,
                       p_buf, p_idx, p_filled>> ]_vars

(***************************************************************************)
(* Persistence                                                             *)
(***************************************************************************)
\* a record of a state with positive tariff and non-negative energies
ValidDoc(doc) ==
  /\ doc.tariff > 0
  /\ doc.daily_kwh >= 0
  /\ doc.yesterday_kwh >= 0
  /\ doc.month_kwh >= 0
  /\ doc.last_month_kwh >= 0

MutatingStep ==
  \/ HandleSetTariff /\ tariffRpKwh' # tariffRpKwh
  \/ HandleResetEnergy
  \/ HandleStartTimer /\ ~timerRunning
  \/ HandleStopTimer /\ timerRunning
  \/ HandleResetTimer
  \/ DayRollover
  \/ MonthRollover

\* C8: when the storage works, every such step leaves in /state.json the
\* document of the state it produced, so that loadState after a restart
\* (from the power-on globals) restores that document, the tariff included.
C8_CommandsPersist ==
  [][ (MutatingStep /\ flash = "saved")
        => /\ file' = JsonFile(StateDoc')
           /\ DocOf(LoadedGlobals(file', BootGlobals)) = StateDoc'
           /\ LoadedGlobals(file', BootGlobals).tariffRpKwh = tariffRpKwh' ]_vars

\* restarted right after /settariff?tariff=5 on a new device: 5 is read back
C8_Witness ==
  /\ pc = "ntp"
  /\ clock = 0
  /\ tariffRpKwh = 5
  /\ daily_kwh = 0
  /\ timerAccumulatedMs = 0
  /\ file.kind = "json"
  /\ file.doc[1].tariff = 5

\* C9: loadState at a boot without /state.json leaves the globals at their
\* defaults (energies 0, tariff 10, timer 0, keys unset) and, when the
\* storage works, leaves a file holding the document of those defaults.
C9_FreshBoot ==
  [][ (SetupLoad /\ file.kind = "missing")
        => /\ Globals' = BootGlobals
           /\ flash = "saved" => file' = JsonFile(DocOf(BootGlobals)) ]_vars

\* the default record has just been created by loadState
C9_Witness ==
  /\ pc = "ntp"
  /\ saveLog = "saved"
  /\ file = JsonFile(DocOf(BootGlobals))
  /\ Globals = BootGlobals

\* the energy counters, tariff and timer seconds of a document are those of
\* the power-on defaults
DefaultCounters(doc) ==
  /\ doc.daily_kwh = DocOf(BootGlobals).daily_kwh
  /\ doc.yesterday_kwh = DocOf(BootGlobals).yesterday_kwh
  /\ doc.month_kwh = DocOf(BootGlobals).month_kwh
  /\ doc.last_month_kwh = DocOf(BootGlobals).last_month_kwh
  /\ doc.tariff = DocOf(BootGlobals).tariff
  /\ doc.timer_accum_sec = DocOf(BootGlobals).timer_accum_sec

\* C12: a /formatfs whose erase succeeds leaves the energy counters, the
\* tariff and the timer value at their power-on defaults in memory and, the
\* storage working, leaves a /state.json record holding those defaults.
C12_FormatResetsToDefaults ==
  [][ (FormatFS(TRUE) /\ flash = "saved")
        => /\ DefaultCounters(StateDoc')
           /\ file'.kind = "json"
           /\ DefaultCounters(file'.doc[1]) ]_vars

\* C13: in every reachable state the four energy counters are
\* non-negative and the tariff is strictly positive.
C13_CountersAndTariffInRange ==
  /\ daily_kwh >= 0
  /\ yesterday_kwh >= 0
  /\ month_kwh >= 0
  /\ last_month_kwh >= 0
  /\ tariffRpKwh > 0

(***************************************************************************)
(* Helper functions                                                        *)
(***************************************************************************)
RECURSIVE SumSeq(_)
\* the sum of a sequence of samples, a not-a-number sample counting as 0
SumSeq(q) ==
  IF q = <<>> THEN 0
  ELSE (IF isnan(Head(q)) THEN 0 ELSE Head(q).v) + SumSeq(Tail(q))

\* the last n elements of sequence q
LastN(q, n) == SubSeq(q, Len(q) - n + 1, Len(q))

\* C14: every power_smoothed call returns the arithmetic mean of the last
\* min(n, K) arguments passed to it since power-on, n being their number and
\* K the window size, a not-a-number argument counting as 0; in particular
\* the mean of all K after exactly K calls, and c once the last K arguments
\* all equal c.
C14_SmootherMean ==
  [][ p_seen' # p_seen
        => LET n == Len(p_seen')
               m == IF n < POWER_AVG_WINDOW THEN n ELSE POWER_AVG_WINDOW
               out == lastCall'.res
           IN  /\ lastCall'.fn = "power_smoothed"
               /\ out.k = "fin"
               /\ m * out.v = SumSeq(LastN(p_seen', m))
               /\ n = POWER_AVG_WINDOW
                    => POWER_AVG_WINDOW * out.v = SumSeq(p_seen')
               /\ \A c \in SmoothInputs \ {NaN} :
                    (/\ n >= POWER_AVG_WINDOW
                     /\ \A i \in 1..POWER_AVG_WINDOW : p_seen'[n - i + 1] = c)
                      => out = c ]_vars

\* seven calls: 120 W and not-a-number, then five times 60 W, returned 60 W
C14_Witness ==
  /\ p_seen = <<Fin(120), NaN, Fin(60), Fin(60), Fin(60), Fin(60), Fin(60)>>
  /\ lastCall = [fn |-> "power_smoothed", arg |-> Fin(60), res |-> Fin(60)]
  /\ p_filled
  /\ p_idx = 2

\* C16: safeNumber returns 0 for not-a-number, for an infinity and for a
\* value below -1e8 or above 1e8, and returns its argument for every finite
\* value from -1e8 to 1e8, the bounds included.
C16_SanitizerRange ==
  [][ lastCall'.fn = "safeNumber"
        => LET x == lastCall'.arg
           IN  IF x.k # "fin" \/ x.v < -(10^8) \/ x.v > 10^8
               THEN lastCall'.res = Fin(0)
               ELSE lastCall'.res = x ]_vars

\* safeNumber has just turned 100,000,001 into 0
C16_Witness ==
  lastCall = [fn |-> "safeNumber", arg |-> Fin(100000001), res |-> Fin(0)]

\* C15: loadState at a boot whose /state.json exists but is empty or does
\* not parse leaves the globals at their defaults and writes nothing: the
\* file is the same after the load.
C15_UnreadableFileKept ==
  [][ (SetupLoad /\ file.kind \in {"empty", "corrupt"})
        => /\ Globals' = BootGlobals
           /\ file' = file
           /\ saveLog' = saveLog ]_vars

\* booted on a file that does not parse: defaults in memory, nothing saved
C15_Witness ==
  /\ pc = "ntp"
  /\ file = CorruptFile
  /\ Globals = BootGlobals
  /\ saveLog = ""

(***************************************************************************)
(* Both rollovers in one loop iteration                                    *)
(***************************************************************************)
\* the month-rollover block of an iteration that started with a day key and
\* a month key both different from the current ones
BothRollovers ==
  /\ MonthStep
  /\ iter.in
  /\ iter.lastDayNum # curDay
  /\ iter.month_id # curMonthId

\* C17 as stated: when both keys change in one iteration, last_month_kwh
\* ends equal to the month_kwh plus the daily_kwh the iteration started
\* with, and month_kwh and daily_kwh end at 0.
C17_MonthTakesStartOfIterationDay ==
  [][ BothRollovers
        => /\ last_month_kwh' = iter.month_kwh + iter.daily_kwh
           /\ month_kwh' = 0
           /\ daily_kwh' = 0 ]_vars

\* C17 as amended: when both keys change in one iteration, last_month_kwh
\* ends equal to the month_kwh the iteration started with plus daily_kwh as
\* it stood after the iteration's sampling block, which is also what
\* yesterday_kwh ends at, and month_kwh and daily_kwh end at 0.
C17_DayFoldedBeforeMonth ==
  [][ BothRollovers
        => /\ last_month_kwh' = iter.month_kwh + iter.daily_sampled
           /\ yesterday_kwh' = iter.daily_sampled
           /\ month_kwh' = 0
           /\ daily_kwh' = 0 ]_vars

\* both rollovers have just run in one iteration: the energy of the day
\* that ended is yesterday's and is counted in the month that ended
C17_Witness ==
  /\ pc = "handle"
  /\ lastDayNum = curDay
  /\ month_id = curMonthId
  /\ month_id # yyyymm_from_epoch(Epoch0)
  /\ yesterday_kwh > 0
  /\ last_month_kwh = yesterday_kwh
  /\ month_kwh = 0
  /\ daily_kwh = 0

C19_NoRolloverBeforeBoundary ==
  [][ /\ SetupNtp => UNCHANGED energyVars
      /\ (DayStep /\ energyVars' # energyVars)
           => RealEpoch \div 86400 # Epoch0 \div 86400
      /\ (MonthStep /\ energyVars' # energyVars)
           => yyyymm_from_epoch(RealEpoch) # yyyymm_from_epoch(Epoch0) ]_vars

(***************************************************************************)
(* The timer across a restart                                              *)
(***************************************************************************)
\* C20: loadState at a boot leaves the timer Stopped with no start instant,
\* neither being read from the record, and the elapsed seconds reported
\* then are the timer_accum_sec of the record loaded; when power is lost
\* while the timer is Running, that record holds the seconds accumulated by
\* the intervals closed before, without the interval that was open.
C20_TimerAfterRestart ==
  [][ /\ SetupLoad
           => /\ UNCHANGED <<timerRunning, timerStartMs>>
              /\ ~timerRunning'
              /\ timerStartMs' = 0
              /\ file.kind = "json" => TimerSec' = file.doc[1].timer_accum_sec
      /\ (Restart /\ timerRunning /\ file.kind = "json")
           => file.doc[1].timer_accum_sec = MsToSec(timerAccumulatedMs) ]_vars

\* just loaded the record of a timer stopped after 8.504 s: Stopped, 8 s
C20_Witness ==
  /\ pc = "ntp"
  /\ clock = 0
  /\ file.kind = "json"
  /\ file.doc[1].timer_accum_sec = 8
  /\ timerAccumulatedMs = SecToMs(8)
  /\ ~timerRunning
  /\ timerStartMs = 0
  /\ TimerSec = 8

(***************************************************************************)
(* The timer over months                                                   *)
(***************************************************************************)
\* C21: in a run without /resettimer and without restart, the elapsed
\* seconds a status request reports are never fewer than those the status
\* request before it reported.
C21_TimerSecNeverDecreases ==
  [][ (HandleApiStatus /\ nObs >= 1)
        => statusDoc'.timer_sec >= statusDoc.timer_sec ]_vars

====
